---- MODULE Spec2Model ----
(***************************************************************************)
(* The handlers of the API (api/app.go) that lock applications and stream  *)
(* their logs: swap, forceDeleteLock and appLog, with the lock store, the  *)
(* application store, the permission table, the audit events, the swap     *)
(* mutation, the log store and the log listeners behind them.              *)
(* The pool-list command of the client (tsuru/client/pool.go) is modelled   *)
(* beside them.                                                            *)
(*                                                                         *)
(* Every client is one user and issues requests one after the other; the   *)
(* requests of different clients interleave at the granularity of one      *)
(* operation on the shared stores.                                         *)
(*                                                                         *)
(* Spec        swap calls of all clients                                   *)
(* SpecFair    swap calls on the two applications, each call running on    *)
(* SpecUnlock  forceDeleteLock beside the swap calls of one client         *)
(* SpecLog     appLog calls of one reader over every request, the writers  *)
(*             of the log and the client                                   *)
(* SpecLogFair the same, each appLog call running on                       *)
(* SpecLogPair appLog calls of all readers at once, over fewer requests    *)
(* SpecForce   swap calls of one client over the spellings of "force"      *)
(* SpecPool    runs of pool-list over the answers of the API               *)
(* SpecScale   addUnits and removeUnits beside the swaps of one client     *)
(* SpecCName   setCName and unsetCName beside the swaps of one client      *)
(* SpecStore   appDelete and createApp beside the swaps of one client      *)
(***************************************************************************)
EXTENDS Integers, FiniteSets, Sequences

\* Number of clients issuing requests concurrently.
NumClients == 2

Clients == 1..NumClients

\* Largest number of units of an application.
MaxUnits == 2

\* The applications of the store, and the pairs of names (app1, app2) a
\* request may carry: both orders of the two applications, the same
\* application twice, and a name that is not in the store on either side.
Existing == {"a", "b"}
Requests ==
    {<<"a", "b">>, <<"b", "a">>, <<"a", "a">>, <<"a", "ghost">>, <<"ghost", "a">>}

Platforms == {"python", "go"}

\* Values of the "force" and "cnameOnly" form fields.
ForceValues == {"", "false", "true"}
CnameOnlyValues == {"", "true", "1", "false", "yes"}

VARIABLES
    apps,     \* the application store: name -> [platform, cname, lock];
              \* cname is the set of addresses that route to the application
    units,    \* the provisioner: name -> set of units
    calls,    \* the swap call each client is running: its locals and position
    grants,   \* name -> successful acquires since the last release (history)
    unlock,   \* the last forceDeleteLock request and its answer
    logs,     \* the log records of application "a", in append order
    sessions, \* the appLog call of each log reader: its locals and position
    tracker,  \* logTracker: the readers whose listener is registered
    poolList, \* the pool-list command of the client: its locals and position
    admin     \* the last request of the operator beside the swaps (units,
              \* cname, delete, create) and its answer

\* What the swap handler leaves alone.
otherVars == <<unlock, logs, sessions, tracker, poolList, admin>>

vars ==
    <<apps, units, calls, grants, unlock, logs, sessions, tracker, poolList,
      admin>>

----------------------------------------------------------------------------
\* The lock record of an application; the owner is the user of the call that
\* acquired it.

NoLock == [locked |-> FALSE, owner |-> 0, reason |-> ""]

AppLock(owner, reason) == [locked |-> TRUE, owner |-> owner, reason |-> reason]

\* The condition of the atomic "acquire-if-absent" write: the application is
\* in the store and its lock is not set.
CanAcquireAlways(name) == name \in DOMAIN apps

CanAcquire(name) == name \in DOMAIN apps /\ ~apps[name].lock.locked

\* The store after a successful acquire of name for owner.
AcquireApplicationLock(store, name, owner, reason) ==
    [store EXCEPT ![name].lock = AppLock(owner, reason)]

\* release: clears the lock whoever holds it; nothing to clear for a name
\* that is not in the store.
ReleaseApplicationLock(store, name) ==
    IF name \in DOMAIN store
    THEN [store EXCEPT ![name].lock = NoLock] ELSE store

GrantsAfterRelease(g, name) ==
    IF name \in DOMAIN g THEN [g EXCEPT ![name] = 0] ELSE g

\* strconv.ParseBool, its error dropped: the value is false on an error.
ParseBool(s) == s \in {"1", "t", "T", "TRUE", "true", "True"}

\* The force field as the handler keeps it.
ForceSwapOf(s) == IF s = "" THEN "false" ELSE s

----------------------------------------------------------------------------
\* The locals of a call.

\* Of the application record getApp loads, the handler uses the name, the
\* platform and, for the 409 answer, the lock.
NoApp == [name |-> "", platform |-> ""]

NoOutcome ==
    [kind |-> "none", msg |-> "", app |-> "", owner |-> 0, reason |-> ""]

Outcome(kind, msg) ==
    [kind |-> kind, msg |-> msg, app |-> "", owner |-> 0, reason |-> ""]

\* The 409 answer: the application's name and the lock read with it.
Busy(name, lock) ==
    [kind |-> "busy", msg |-> "", app |-> name, owner |-> lock.owner,
     reason |-> lock.reason]

\* The call at rest. acquired, timedOut, lockOps and mutated tell what the
\* call has done; before holds the routing identities of its two
\* applications when its second acquire succeeded after the first.
Idle ==
    [pc |-> "idle", app1Name |-> "", app2Name |-> "", forceSwap |-> "",
     cnameOnly |-> FALSE, locked1 |-> FALSE, locked2 |-> FALSE,
     app1 |-> NoApp, app2 |-> NoApp, units1 |-> 0, units2 |-> 0,
     outcome |-> NoOutcome, evt1 |-> "none", evt2 |-> "none",
     acquired |-> {}, timedOut |-> {}, lockOps |-> {}, mutated |-> FALSE,
     before |-> <<>>]

\* The routing identity of an application, none when the store has no such
\* application.
CnameOf(name) == IF name \in DOMAIN apps THEN apps[name].cname ELSE {}

\* Units(): the units the provisioner runs for the application, none for
\* an application it does not know.
UnitsOf(name) == IF name \in DOMAIN units THEN units[name] ELSE {}

\* getApp: the record of the application as the store holds it.
GetApp(name) == [name |-> name, platform |-> apps[name].platform]

\* The pool-list command is not running.
NoPoolList == [pc |-> "idle", input |-> <<>>, pools |-> <<>>, rows |-> <<>>]

\* No request of the operator yet.
NoAdmin == [handler |-> "", app |-> "", answer |-> "none"]

\* No forceDeleteLock request yet. seq tells one request from the next.
NoUnlock ==
    [seq |-> 0, app |-> "", allowed |-> FALSE, checked |-> FALSE,
     answer |-> "none"]

----------------------------------------------------------------------------
\* The log of application "a" and the appLog calls that read it.

\* Number of clients reading the log concurrently (in SpecLogPair; SpecLog
\* runs the first of them alone).
NumReaders == 2

Readers == 1..NumReaders

\* Largest number of records appended to the log.
MaxLogs == 3

\* Largest number of keep-alive intervals counted without a write.
MaxIdle == 2

\* The sources of log records, and the values of the "source" parameter:
\* the empty value matches every record. The "unit" parameter filters the
\* same way and is left empty.
Sources == {"web", "tsuru"}
SourceValues == {"", "web"}

\* Values of the "lines" parameter, as sequences of characters.
LinesValues ==
    {<<>>, <<"x">>, <<"-", "1">>, <<"0">>, <<"1">>, <<"2">>, <<"1", "x">>}

\* Values of the "follow" parameter.
FollowValues == {"", "1", "true"}

\* strconv.Atoi: an optional sign and one or more decimal digits.
DigitValue(ch) ==
    CASE ch = "0" -> 0 [] ch = "1" -> 1 [] ch = "2" -> 2 [] ch = "3" -> 3
      [] ch = "4" -> 4 [] ch = "5" -> 5 [] ch = "6" -> 6 [] ch = "7" -> 7
      [] ch = "8" -> 8 [] ch = "9" -> 9 [] OTHER -> -1

RECURSIVE DigitsValue(_, _)
DigitsValue(chars, acc) ==
    IF chars = <<>> THEN acc
    ELSE IF DigitValue(Head(chars)) < 0 THEN -1
    ELSE DigitsValue(Tail(chars), 10 * acc + DigitValue(Head(chars)))

Atoi(chars) ==
    LET signed == chars # <<>> /\ Head(chars) \in {"-", "+"}
        digits == IF signed THEN Tail(chars) ELSE chars
        value  == DigitsValue(digits, 0)
    IN  IF digits = <<>> \/ value < 0
        THEN [ok |-> FALSE, value |-> 0]
        ELSE [ok |-> TRUE,
              value |-> IF signed /\ Head(chars) = "-" THEN 0 - value ELSE value]

\* filterLog against a record.
Matches(rec, source) == source = "" \/ rec.source = source

RECURSIVE Filter(_, _)
Filter(recs, source) ==
    IF recs = <<>> THEN <<>>
    ELSE IF Matches(Head(recs), source)
    THEN <<Head(recs)>> \o Filter(Tail(recs), source)
    ELSE Filter(Tail(recs), source)

\* The last n records of a sequence, all of them when it has fewer.
LastN(recs, n) ==
    IF n >= Len(recs) THEN recs ELSE SubSeq(recs, Len(recs) - n + 1, Len(recs))

\* The locals of an appLog call, with what its listener holds (queue, open)
\* and what the client has of it (response, disconnected). fetchedAt and
\* sentAt are the lengths of the log when the backlog was read and when it
\* was written to the response; idle counts the keep-alive intervals since
\* the last write.
NoSession ==
    [pc |-> "idle", linesParam |-> <<>>, lines |-> 0, app |-> "",
     allowed |-> FALSE, failed |-> FALSE, source |-> "", follow |-> "",
     notifier |-> FALSE, backlog |-> <<>>, response |-> <<>>,
     queue |-> <<>>, open |-> FALSE, registered |-> FALSE,
     disconnected |-> FALSE, fetchedAt |-> 0, sentAt |-> 0, idle |-> 0,
     outcome |-> "none"]

----------------------------------------------------------------------------

\* Application "a" runs python on one unit; "b" is any of the combinations.
\* No request is in progress and no log record is written.
Init ==
    /\ \E p \in [Existing -> Platforms], n \in [Existing -> 1..MaxUnits] :
          /\ p["a"] = "python" /\ n["a"] = 1
          /\ apps = [x \in Existing |->
                       [platform |-> p[x], cname |-> {x}, lock |-> NoLock]]
          /\ units = [x \in Existing |-> {<<x, i>> : i \in 1..n[x]}]
    /\ calls = [c \in Clients |-> Idle]
    /\ grants = [x \in Existing |-> 0]
    /\ unlock = NoUnlock
    /\ logs = <<>>
    /\ sessions = [r \in Readers |-> NoSession]
    /\ tracker = {}
    /\ poolList = NoPoolList
    /\ admin = NoAdmin

----------------------------------------------------------------------------
\* Where a return goes: the deferred calls registered so far run in reverse
\* order, then the call is done.

\* A return before any defer statement.
ExitBeforeDefers == "done"

\* A return after "defer ReleaseApplicationLock(app1Name)" only.
ExitAfterDefer1Skipped == "done"

ExitAfterDefer1 == "rel1"

\* A return after both "defer ReleaseApplicationLock" statements.
ExitAfterDefer2 == "rel2"

\* The application of the k-th getApp and lock check.
CheckedName(call, k) == IF k = 1 THEN call.app1Name ELSE call.app2Name

\* The checks with locked2 left out.
LockCheckFirstOnly(call, k) ==
    IF CheckedName(call, k) \notin DOMAIN apps
    THEN Outcome("notfound", CheckedName(call, k))
    ELSE IF k = 1 /\ ~call.locked1
    THEN Busy(CheckedName(call, k), apps[CheckedName(call, k)].lock)
    ELSE NoOutcome

\* getApp of the k-th application and the check of its flag: the answer
\* that ends the call, NoOutcome when it goes on. The lock of the 409 answer
\* is the one of the record getApp loaded.
LockCheck(call, k) ==
    IF CheckedName(call, k) \notin DOMAIN apps
    THEN Outcome("notfound", CheckedName(call, k))
    ELSE IF ~(IF k = 1 THEN call.locked1 ELSE call.locked2)
    THEN Busy(CheckedName(call, k), apps[CheckedName(call, k)].lock)
    ELSE NoOutcome

\* The comparison of the platforms of the two applications.
PlatformsMatchAlways(a1, a2) == TRUE

PlatformsMatch(a1, a2) == a1.platform = a2.platform

\* The comparison of the numbers of units.
UnitsMatch(n1, n2) == n1 = n2

\* The validation is skipped for every value of force but "false".
ValidationRuns(forceSwap) == forceSwap = "false"

\* app.Swap: the routing identities are exchanged, and the unit sets unless
\* cnameOnly.
SwapCnames(store, n1, n2) ==
    [store EXCEPT ![n1].cname = store[n2].cname, ![n2].cname = store[n1].cname]

SwapUnits(u, n1, n2, cnameOnly) ==
    IF cnameOnly THEN u ELSE [u EXCEPT ![n1] = u[n2], ![n2] = u[n1]]

\* The arguments the handler hands to app.Swap.
SwapArgs(call, cnameOnly) == <<call.app1.name, call.app2.name, cnameOnly>>

----------------------------------------------------------------------------
\* The handler. A step holds at most one access to a lock or to the units
\* of an application that another call can change; what the validation read
\* of the provisioner is kept in units1 and units2.

\* The application of the k-th acquire: app1 first, app2 second, as the
\* request names them.
IdentifierRank(name) ==
    CASE name = "a" -> 1 [] name = "b" -> 2 [] OTHER -> 3

NameOfByIdentifier(call, k) ==
    IF (k = 1) = (IdentifierRank(call.app1Name) <= IdentifierRank(call.app2Name))
    THEN call.app1Name ELSE call.app2Name

NameOf(call, k) == IF k = 1 THEN call.app1Name ELSE call.app2Name

\* The request is parsed. The cnameOnly field is drawn where the handler
\* first reads it, at the call of app.Swap.
Start(c) ==
    /\ calls[c].pc = "idle"
    /\ \E r \in Requests, f \in ForceValues :
          calls' = [calls EXCEPT ![c] =
                      [Idle EXCEPT !.pc = "acq1", !.app1Name = r[1],
                                   !.app2Name = r[2],
                                   !.forceSwap = ForceSwapOf(f)]]
    /\ UNCHANGED <<apps, units, grants, otherVars>>

\* AcquireApplicationLockWait reports acquired = true.
AcquireOK(c, k) ==
    LET call == calls[c]
        name == NameOf(call, k)
    IN  /\ call.pc = (IF k = 1 THEN "acq1" ELSE "acq2")
        /\ CanAcquire(name)
        /\ apps' = AcquireApplicationLock(apps, name, c, "/swap")
        /\ grants' = [grants EXCEPT ![name] = @ + 1]
        /\ calls' = [calls EXCEPT ![c] =
                       [call EXCEPT !.pc = (IF k = 1 THEN "acq2" ELSE "get"),
                                    !.locked1 = IF k = 1 THEN TRUE ELSE @,
                                    !.locked2 = IF k = 2 THEN TRUE ELSE @,
                                    !.before =
                                        IF k = 2 /\ call.locked1
                                        THEN <<CnameOf(call.app1Name),
                                               CnameOf(call.app2Name)>>
                                        ELSE @,
                                    !.acquired = @ \cup {name},
                                    !.lockOps = @ \cup {name}]]
        /\ UNCHANGED <<units, otherVars>>

\* An acquire that waits without end on a lock that is not free.
AcquireWaitsForever(c, k) == FALSE /\ UNCHANGED vars

\* AcquireApplicationLockWait reports acquired = false and no error: the
\* write found no application of that name with a free lock until the wait
\* was over (lockWaitDuration).
AcquireTimeout(c, k) ==
    LET call == calls[c]
        name == NameOf(call, k)
    IN  /\ call.pc = (IF k = 1 THEN "acq1" ELSE "acq2")
        /\ ~CanAcquire(name)
        /\ calls' = [calls EXCEPT ![c] =
                       [call EXCEPT !.pc = (IF k = 1 THEN "acq2" ELSE "get"),
                                    !.timedOut = @ \cup {name},
                                    !.lockOps = @ \cup {name}]]
        /\ UNCHANGED <<apps, units, grants, otherVars>>

\* AcquireApplicationLockWait reports a storage error.
AcquireErr(c, k) ==
    LET call == calls[c]
        name == NameOf(call, k)
    IN  /\ call.pc = (IF k = 1 THEN "acq1" ELSE "acq2")
        /\ calls' = [calls EXCEPT ![c] =
                       [call EXCEPT !.pc = (IF k = 1 THEN ExitBeforeDefers
                                                     ELSE ExitAfterDefer1),
                                    !.outcome = Outcome("storage", ""),
                                    !.lockOps = @ \cup {name}]]
        /\ UNCHANGED <<apps, units, grants, otherVars>>

\* getApp or a lock check ends the call: 404 or 409.
Rejected(c, k) ==
    LET call == calls[c]
    IN  /\ call.pc = (IF k = 1 THEN "get" ELSE "get2")
        /\ LockCheck(call, k) # NoOutcome
        /\ calls' = [calls EXCEPT ![c] =
                       [call EXCEPT !.pc = ExitAfterDefer2,
                                    !.outcome = LockCheck(call, k)]]
        /\ UNCHANGED <<apps, units, grants, otherVars>>

\* The first application is loaded and its lock was acquired.
Loaded(c) ==
    LET call == calls[c]
    IN  /\ call.pc = "get"
        /\ LockCheck(call, 1) = NoOutcome
        /\ calls' = [calls EXCEPT ![c] =
                       [call EXCEPT !.pc = "get2",
                                    !.app1 = GetApp(call.app1Name)]]
        /\ UNCHANGED <<apps, units, grants, otherVars>>

\* Both applications are loaded and locked; one of the permission checks
\* fails.
Unauthorized(c) ==
    LET call == calls[c]
    IN  /\ call.pc = "get2"
        /\ LockCheck(call, 2) = NoOutcome
        /\ \E allowed1 \in BOOLEAN, allowed2 \in BOOLEAN :
              /\ ~allowed1 \/ ~allowed2
              /\ calls' = [calls EXCEPT ![c] =
                             [call EXCEPT !.pc = ExitAfterDefer2,
                                          !.app2 = GetApp(call.app2Name),
                                          !.outcome = Outcome("unauthorized", "")]]
        /\ UNCHANGED <<apps, units, grants, otherVars>>

\* The permission checks pass and event.New fails, for the first event or,
\* the first one created, for the second: the deferred Done is not
\* registered yet.
EventErr(c) ==
    LET call == calls[c]
    IN  /\ call.pc = "get2"
        /\ LockCheck(call, 2) = NoOutcome
        /\ \E first \in BOOLEAN :
              calls' = [calls EXCEPT ![c] =
                          [call EXCEPT !.pc = ExitAfterDefer2,
                                       !.app2 = GetApp(call.app2Name),
                                       !.evt1 = IF first THEN "none" ELSE "open",
                                       !.outcome = Outcome("event", "")]]
        /\ UNCHANGED <<apps, units, grants, otherVars>>

\* The permission checks pass and both events are created.
Events(c) ==
    LET call == calls[c]
    IN  /\ call.pc = "get2"
        /\ LockCheck(call, 2) = NoOutcome
        /\ calls' = [calls EXCEPT ![c] =
                       [call EXCEPT !.pc = "validate",
                                    !.app2 = GetApp(call.app2Name),
                                    !.evt1 = "open", !.evt2 = "open"]]
        /\ UNCHANGED <<apps, units, grants, otherVars>>

\* The comparison by platform, when the validation runs, and the first
\* reading of the provisioner: app1.Units().
Validate(c) ==
    LET call == calls[c]
        n1 == Cardinality(UnitsOf(call.app1.name))
    IN  /\ call.pc = "validate"
        /\ calls' = [calls EXCEPT ![c] =
              IF ~ValidationRuns(call.forceSwap)
              THEN [call EXCEPT !.pc = "swap"]
              ELSE IF ~PlatformsMatch(call.app1, call.app2)
              THEN [call EXCEPT !.pc = ExitAfterDefer2,
                                !.evt1 = "done", !.evt2 = "done",
                                !.outcome = Outcome("precondition",
                                                    "platforms don't match")]
              ELSE [call EXCEPT !.pc = "units2", !.units1 = n1]]
        /\ UNCHANGED <<apps, units, grants, otherVars>>

\* The second reading of the provisioner, app2.Units(), and the comparison
\* of the two lengths.
CompareUnits(c) ==
    LET call == calls[c]
        n2 == Cardinality(UnitsOf(call.app2.name))
    IN  /\ call.pc = "units2"
        /\ calls' = [calls EXCEPT ![c] =
              IF ~UnitsMatch(call.units1, n2)
              THEN [call EXCEPT !.pc = ExitAfterDefer2, !.units2 = n2,
                                !.evt1 = "done", !.evt2 = "done",
                                !.outcome = Outcome("precondition",
                                              "number of units doesn't match")]
              ELSE [call EXCEPT !.pc = "swap", !.units2 = n2]]
        /\ UNCHANGED <<apps, units, grants, otherVars>>

\* Units() of one of the applications fails during the comparison.
UnitsErr(c) ==
    LET call == calls[c]
    IN  /\ \/ /\ call.pc = "validate"
              /\ ValidationRuns(call.forceSwap)
              /\ PlatformsMatch(call.app1, call.app2)
           \/ call.pc = "units2"
        /\ calls' = [calls EXCEPT ![c] =
                       [call EXCEPT !.pc = ExitAfterDefer2,
                                    !.evt1 = "done", !.evt2 = "done",
                                    !.outcome = Outcome("units", "")]]
        /\ UNCHANGED <<apps, units, grants, otherVars>>

\* app.Swap succeeds; both applications are in the store.
Mutate(c) ==
    LET call == calls[c]
    IN  /\ call.pc = "swap"
        /\ {call.app1.name, call.app2.name} \subseteq DOMAIN apps
        /\ \E co \in CnameOnlyValues :
              LET args == SwapArgs(call, ParseBool(co))
              IN  /\ apps' = SwapCnames(apps, args[1], args[2])
                  /\ units' = SwapUnits(units, args[1], args[2], args[3])
                  /\ calls' = [calls EXCEPT ![c] =
                                 [call EXCEPT !.pc = ExitAfterDefer2,
                                              !.cnameOnly = ParseBool(co),
                                              !.evt1 = "done", !.evt2 = "done",
                                              !.mutated = TRUE,
                                              !.before = <<>>,
                                              !.outcome = Outcome("ok", "")]]
        /\ UNCHANGED <<grants, otherVars>>

\* app.Swap fails: nothing is committed.
MutateErr(c) ==
    LET call == calls[c]
    IN  /\ call.pc = "swap"
        /\ calls' = [calls EXCEPT ![c] =
                       [call EXCEPT !.pc = ExitAfterDefer2,
                                    !.evt1 = "done", !.evt2 = "done",
                                    !.before = <<>>,
                                    !.outcome = Outcome("mutation", "")]]
        /\ UNCHANGED <<apps, units, grants, otherVars>>

\* The deferred ReleaseApplicationLock(app2Name).
Release2(c) ==
    LET call == calls[c]
    IN  /\ call.pc = "rel2"
        /\ apps' = ReleaseApplicationLock(apps, call.app2Name)
        /\ grants' = GrantsAfterRelease(grants, call.app2Name)
        /\ calls' = [calls EXCEPT ![c] =
                       [call EXCEPT !.pc = "rel1", !.before = <<>>,
                                    !.lockOps = @ \cup {call.app2Name}]]
        /\ UNCHANGED <<units, otherVars>>

\* The deferred ReleaseApplicationLock(app1Name).
Release1(c) ==
    LET call == calls[c]
    IN  /\ call.pc = "rel1"
        /\ apps' = ReleaseApplicationLock(apps, call.app1Name)
        /\ grants' = GrantsAfterRelease(grants, call.app1Name)
        /\ calls' = [calls EXCEPT ![c] =
                       [call EXCEPT !.pc = "done",
                                    !.lockOps = @ \cup {call.app1Name}]]
        /\ UNCHANGED <<units, otherVars>>

\* The answer is sent; the client may issue its next request.
Return(c) ==
    /\ calls[c].pc = "done"
    /\ calls' = [calls EXCEPT ![c] = Idle]
    /\ UNCHANGED <<apps, units, grants, otherVars>>

SwapStep(c) ==
        \/ Start(c)
        \/ \E k \in 1..2 : AcquireOK(c, k)
        \/ \E k \in 1..2 : AcquireTimeout(c, k)
        \/ \E k \in 1..2 : AcquireErr(c, k)
        \/ \E k \in 1..2 : Rejected(c, k)
        \/ Loaded(c)
        \/ Unauthorized(c)
        \/ EventErr(c)
        \/ Events(c)
        \/ Validate(c)
        \/ CompareUnits(c)
        \/ UnitsErr(c)
        \/ Mutate(c)
        \/ MutateErr(c)
        \/ Release2(c)
        \/ Release1(c)
        \/ Return(c)

Next == \E c \in Clients : SwapStep(c)

Spec == Init /\ [][Next]_vars

\* The steps of a call in progress that need no failure of a store, of
\* event.New or of the provisioner: its goroutine takes one that stays
\* possible. An acquire ends by success or by the end of its wait.
RunStep(c) ==
    /\ calls[c].pc # "idle"
    /\ \/ \E k \in 1..2 : AcquireOK(c, k)
       \/ \E k \in 1..2 : AcquireTimeout(c, k)
       \/ \E k \in 1..2 : Rejected(c, k)
       \/ Loaded(c)
       \/ Events(c)
       \/ Validate(c)
       \/ CompareUnits(c)
       \/ Mutate(c)
       \/ Release2(c)
       \/ Release1(c)

\* The requests on applications that are both in the store.
PairRequests == {<<"a", "b">>, <<"b", "a">>}

\* Start, for those requests.
StartPair(c) ==
    /\ calls[c].pc = "idle"
    /\ \E r \in PairRequests, f \in ForceValues :
          calls' = [calls EXCEPT ![c] =
                      [Idle EXCEPT !.pc = "acq1", !.app1Name = r[1],
                                   !.app2Name = r[2],
                                   !.forceSwap = ForceSwapOf(f)]]
    /\ UNCHANGED <<apps, units, grants, otherVars>>

PairStep(c) ==
    \/ StartPair(c)
    \/ \E k \in 1..2 : AcquireOK(c, k)
    \/ \E k \in 1..2 : AcquireTimeout(c, k)
    \/ \E k \in 1..2 : AcquireErr(c, k)
    \/ \E k \in 1..2 : Rejected(c, k)
    \/ Loaded(c)
    \/ Unauthorized(c)
    \/ EventErr(c)
    \/ Events(c)
    \/ Validate(c)
    \/ CompareUnits(c)
    \/ UnitsErr(c)
    \/ Mutate(c)
    \/ MutateErr(c)
    \/ Release2(c)
    \/ Release1(c)
    \/ Return(c)

NextFair == \E c \in Clients : PairStep(c)

\* Application "b" runs python as "a" does, on two units.
InitFair ==
    /\ Init
    /\ apps["b"].platform = "python"
    /\ Cardinality(units["b"]) = 2

SpecFair ==
    /\ InitFair
    /\ [][NextFair]_vars
    /\ \A c \in Clients : WF_vars(RunStep(c))

----------------------------------------------------------------------------
\* The swap calls of one client with more values of the force field.

ForceSpellings == {"", "false", "0", "False", "f", "true", "1"}

\* Start, for those values.
StartForce(c) ==
    /\ calls[c].pc = "idle"
    /\ \E r \in Requests, f \in ForceSpellings :
          calls' = [calls EXCEPT ![c] =
                      [Idle EXCEPT !.pc = "acq1", !.app1Name = r[1],
                                   !.app2Name = r[2],
                                   !.forceSwap = ForceSwapOf(f)]]
    /\ UNCHANGED <<apps, units, grants, otherVars>>

ForceStep(c) ==
    \/ StartForce(c)
    \/ \E k \in 1..2 : AcquireOK(c, k)
    \/ \E k \in 1..2 : AcquireTimeout(c, k)
    \/ \E k \in 1..2 : AcquireErr(c, k)
    \/ \E k \in 1..2 : Rejected(c, k)
    \/ Loaded(c)
    \/ Unauthorized(c)
    \/ EventErr(c)
    \/ Events(c)
    \/ Validate(c)
    \/ CompareUnits(c)
    \/ UnitsErr(c)
    \/ Mutate(c)
    \/ MutateErr(c)
    \/ Release2(c)
    \/ Release1(c)
    \/ Return(c)

NextForce == \E c \in {1} : ForceStep(c)

SpecForce == Init /\ [][NextForce]_vars

----------------------------------------------------------------------------
\* forceDeleteLock, the administrative unlock, beside one client that swaps.

\* The names an unlock request may carry.
UnlockNames == Existing \cup {"ghost"}

\* The answer of forceDeleteLock for an application name and the result of
\* permission.Check: getAppFromContext is first, the permission check second.
UnlockAnswerPermissionFirst(name, allowed) ==
    IF ~allowed THEN "unauthorized"
    ELSE IF name \notin DOMAIN apps THEN "notfound"
    ELSE "ok"

UnlockAnswer(name, allowed) ==
    IF name \notin DOMAIN apps THEN "notfound"
    ELSE IF ~allowed THEN "unauthorized"
    ELSE "ok"

\* One request of an identity that takes no part in the swaps. The lock is
\* released, whoever holds it, when the answer is "ok" and only then.
ForceDeleteLock ==
    \E name \in UnlockNames, allowed \in BOOLEAN :
        LET answer == UnlockAnswer(name, allowed)
        IN  /\ unlock' = [seq |-> 1 - unlock.seq, app |-> name,
                          allowed |-> allowed,
                          checked |-> answer # "notfound",
                          answer |-> answer]
            /\ IF answer = "ok"
               THEN /\ apps' = ReleaseApplicationLock(apps, name)
                    /\ grants' = GrantsAfterRelease(grants, name)
               ELSE UNCHANGED <<apps, grants>>
            /\ UNCHANGED <<units, calls, logs, sessions, tracker, poolList, admin>>

NextUnlock ==
    \/ \E c \in {1} : SwapStep(c)
    \/ ForceDeleteLock

SpecUnlock == Init /\ [][NextUnlock]_vars

----------------------------------------------------------------------------
\* addUnits and removeUnits on application "a", beside one client that
\* swaps "a" and "b".

\* The names a request may carry, and the values of its "units" field.
ScaleNames == {"a", "ghost"}
ScaleValues == {<<>>, <<"x">>, <<"0">>, <<"1">>, <<"-", "1">>}

\* strconv.ParseUint in base 10: one or more decimal digits, no sign.
ParseUint(chars) ==
    LET value == DigitsValue(chars, 0)
    IN  IF chars = <<>> \/ value < 0
        THEN [ok |-> FALSE, value |-> 0]
        ELSE [ok |-> TRUE, value |-> value]

\* numberOfUnits: the field is mandatory and a positive integer.
NumberOfUnits(chars) ==
    IF chars = <<>> \/ ~ParseUint(chars).ok \/ ParseUint(chars).value = 0
    THEN [ok |-> FALSE, value |-> 0]
    ELSE [ok |-> TRUE, value |-> ParseUint(chars).value]

\* What ends the request before the provisioner is called: numberOfUnits,
\* getAppFromContext, permission.Check and event.New, in that order; "none"
\* when the request goes on. check is what the two collaborators answer.
ScaleRefusal(chars, name, check) ==
    IF ~NumberOfUnits(chars).ok THEN "badrequest"
    ELSE IF name \notin DOMAIN apps THEN "notfound"
    ELSE IF check # "ok" THEN check
    ELSE "none"

\* The collaborators are asked only when a request reaches them.
ChecksReached(reached, checks) == IF reached THEN checks ELSE {"ok"}

\* The units nobody has, for the provisioner to start.
FreshUnits(name) ==
    {<<name, i>> : i \in 1..(2 * MaxUnits)}
        \ UNION {units[x] : x \in DOMAIN units}

\* The least n units of a set, in the order of their numbers and names.
FirstUnits(set, n) ==
    {u \in set :
        Cardinality({v \in set :
            \/ v[2] < u[2]
            \/ v[2] = u[2] /\ IdentifierRank(v[1]) <= IdentifierRank(u[1])})
                <= n}

\* a.AddUnits(n): n units more; a.RemoveUnits(n): n units less, one unit
\* at least is left. Applications hold MaxUnits units at most.
UnitsAfter(handler, name, n) ==
    IF handler = "add"
    THEN [units EXCEPT ![name] = @ \cup FirstUnits(FreshUnits(name), n)]
    ELSE [units EXCEPT ![name] = @ \ FirstUnits(@, n)]

CanScale(handler, name, n) ==
    IF handler = "add"
    THEN Cardinality(units[name]) + n <= MaxUnits
    ELSE n < Cardinality(units[name])

\* One request of an identity that takes no part in the swaps. Neither
\* handler acquires or checks the lock of the application.
ScaleUnits ==
    \E handler \in {"add", "remove"}, name \in ScaleNames, chars \in ScaleValues :
        \E check \in ChecksReached(NumberOfUnits(chars).ok /\ name \in DOMAIN apps,
                                   {"ok", "unauthorized", "event"}) :
            LET refusal == ScaleRefusal(chars, name, check)
                n == NumberOfUnits(chars).value
                done == refusal = "none" /\ CanScale(handler, name, n)
                answer == IF refusal # "none" THEN refusal
                          ELSE IF done THEN "ok" ELSE "error"
            IN  /\ admin' = [handler |-> handler, app |-> name,
                             answer |-> answer]
                /\ units' = IF done THEN UnitsAfter(handler, name, n)
                            ELSE units
                /\ UNCHANGED <<apps, calls, grants, unlock, logs, sessions,
                               tracker, poolList>>

\* The swap requests that run beside the requests of the operator, and
\* their Start.
ScaleRequests == {<<"a", "b">>, <<"b", "a">>, <<"a", "a">>}

StartScale(c) ==
    /\ calls[c].pc = "idle"
    /\ \E r \in ScaleRequests, f \in ForceValues :
          calls' = [calls EXCEPT ![c] =
                      [Idle EXCEPT !.pc = "acq1", !.app1Name = r[1],
                                   !.app2Name = r[2],
                                   !.forceSwap = ForceSwapOf(f)]]
    /\ UNCHANGED <<apps, units, grants, otherVars>>

ScaleStep(c) ==
    \/ StartScale(c)
    \/ \E k \in 1..2 : AcquireOK(c, k)
    \/ \E k \in 1..2 : AcquireTimeout(c, k)
    \/ \E k \in 1..2 : AcquireErr(c, k)
    \/ \E k \in 1..2 : Rejected(c, k)
    \/ Loaded(c)
    \/ Unauthorized(c)
    \/ EventErr(c)
    \/ Events(c)
    \/ Validate(c)
    \/ CompareUnits(c)
    \/ UnitsErr(c)
    \/ Mutate(c)
    \/ MutateErr(c)
    \/ Release2(c)
    \/ Release1(c)
    \/ Return(c)

NextScale ==
    \/ \E c \in {1} : ScaleStep(c)
    \/ ScaleUnits

SpecScale == InitFair /\ [][NextScale]_vars

----------------------------------------------------------------------------
\* setCName and unsetCName on application "a", beside one client that
\* swaps "a" and "b".

\* The names a request may carry, and the values of its "cname" field. A
\* form that does not parse is answered as one without the field.
CNameNames == {"a", "ghost"}
CNameValues == {<<>>, <<"www">>}

\* What ends the request before the store is written: the check of the
\* field, getAppFromContext, permission.Check and event.New, in that order;
\* "none" when the request goes on.
CNameRefusal(cnames, name, check) ==
    IF Len(cnames) = 0 THEN "badrequest"
    ELSE IF name \notin DOMAIN apps THEN "notfound"
    ELSE IF check \in {"unauthorized", "event"} THEN check
    ELSE "none"

\* The addresses of a list.
Addresses(cnames) == {cnames[i] : i \in 1..Len(cnames)}

\* a.AddCName: the addresses route to the application from now on, unless
\* one of them routes to an application already; a.RemoveCName: they route
\* to it no more, unless one of them did not.
CanSetCName(handler, name, cnames) ==
    IF handler = "set"
    THEN Addresses(cnames) \cap UNION {apps[x].cname : x \in DOMAIN apps} = {}
    ELSE Addresses(cnames) \subseteq apps[name].cname

CNamesAfter(handler, name, cnames) ==
    IF handler = "set"
    THEN [apps EXCEPT ![name].cname = @ \cup Addresses(cnames)]
    ELSE [apps EXCEPT ![name].cname = @ \ Addresses(cnames)]

\* One request of the operator. Neither handler acquires or checks the
\* lock of the application. "Invalid cname" is answered 400, any other
\* error as it is.
SetCName ==
    \E handler \in {"set", "unset"}, name \in CNameNames, cnames \in CNameValues :
        \E check \in ChecksReached(Len(cnames) # 0 /\ name \in DOMAIN apps,
                    {"ok", "unauthorized", "event", "invalid", "error"}) :
            LET refusal == CNameRefusal(cnames, name, check)
                done == /\ refusal = "none" /\ check = "ok"
                        /\ CanSetCName(handler, name, cnames)
                answer == IF refusal # "none" THEN refusal
                          ELSE IF done THEN "ok"
                          ELSE IF check = "invalid" THEN "badrequest"
                          ELSE "error"
            IN  /\ admin' = [handler |-> handler, app |-> name,
                             answer |-> answer]
                /\ apps' = IF done THEN CNamesAfter(handler, name, cnames)
                           ELSE apps
                /\ UNCHANGED <<units, calls, grants, unlock, logs, sessions,
                               tracker, poolList>>

NextCName ==
    \/ \E c \in {1} : ScaleStep(c)
    \/ SetCName

SpecCName == InitFair /\ [][NextCName]_vars

----------------------------------------------------------------------------
\* appDelete and createApp on application "b", beside one client that swaps
\* "a" and "b".

\* The names a request may carry.
DeleteNames == {"b", "ghost"}
CreateNames == {"a", "b"}

\* The platforms a createApp request may name; app.GetPlatform knows those
\* of Platforms.
CreatePlatforms == {"python", "cobol"}

\* What ends appDelete before the store is written: getAppFromContext,
\* permission.Check and event.New, in that order.
DeleteRefusal(name, check) ==
    IF name \notin DOMAIN apps THEN "notfound"
    ELSE IF check \in {"unauthorized", "event"} THEN check
    ELSE "none"

\* A store or a provisioner without the entry of name.
Without(f, name) == [x \in DOMAIN f \ {name} |-> f[x]]

\* A store or a provisioner with one more entry.
With(f, name, value) ==
    [x \in DOMAIN f \cup {name} |-> IF x = name THEN value ELSE f[x]]

\* One appDelete request of the operator: app.Delete removes the
\* application with its lock and its units. The handler does not acquire
\* or check the lock.
AppDelete ==
    \E name \in DeleteNames :
        \E check \in ChecksReached(name \in DOMAIN apps,
                                   {"ok", "unauthorized", "event", "error"}) :
            LET refusal == DeleteRefusal(name, check)
                done == refusal = "none" /\ check = "ok"
                answer == IF refusal # "none" THEN refusal
                          ELSE IF done THEN "ok" ELSE "error"
            IN  /\ admin' = [handler |-> "delete", app |-> name,
                             answer |-> answer]
                /\ apps' = IF done THEN Without(apps, name) ELSE apps
                /\ units' = IF done THEN Without(units, name) ELSE units
                /\ grants' = IF done THEN Without(grants, name) ELSE grants
                /\ UNCHANGED <<calls, unlock, logs, sessions, tracker,
                               poolList>>

\* What ends createApp before app.CreateApp writes the store, in the order
\* of the handler: r.ParseForm (400), permission.TeamForPermission,
\* permission.Check (401), t.User, app.GetPlatform, a disabled platform the
\* user may not use (400), event.New, and the errors of app.CreateApp: the
\* name that is taken (409), a ValidationError, a NoTeamsError or an
\* InvalidPlatformError (400), the quota (403), any other error.
CreateRefusal(name, platform, check) ==
    IF check = "form" THEN "badrequest"
    ELSE IF check = "team" THEN "error"
    ELSE IF check = "unauthorized" THEN "unauthorized"
    ELSE IF check = "user" THEN "error"
    ELSE IF platform \notin Platforms THEN "error"
    ELSE IF check = "disabled" THEN "badrequest"
    ELSE IF check = "event" THEN "event"
    ELSE IF name \in DOMAIN apps THEN "conflict"
    ELSE IF check \in {"validation", "noteams", "invalidplatform"}
         THEN "badrequest"
    ELSE IF check = "quota" THEN "forbidden"
    ELSE IF check = "other" THEN "error"
    ELSE "none"

\* One createApp request of the operator; the new application has its own
\* address, no lock and no unit. An error of the repository
\* manager is returned after the application was created.
CreateApp ==
    \E name \in CreateNames, platform \in CreatePlatforms,
       check \in {"ok", "form", "team", "unauthorized", "user", "disabled",
                  "event", "validation", "noteams", "invalidplatform",
                  "quota", "other", "repository"} :
        LET refusal == CreateRefusal(name, platform, check)
            done == refusal = "none"
            answer == IF refusal # "none" THEN refusal
                      ELSE IF check = "repository" THEN "error"
                      ELSE "created"
        IN  /\ admin' = [handler |-> "create", app |-> name,
                         answer |-> answer]
            /\ apps' = IF done
                       THEN With(apps, name,
                                 [platform |-> platform, cname |-> {name},
                                  lock |-> NoLock])
                       ELSE apps
            /\ units' = IF done THEN With(units, name, {}) ELSE units
            /\ grants' = IF done THEN With(grants, name, 0) ELSE grants
            /\ UNCHANGED <<calls, unlock, logs, sessions, tracker, poolList>>

NextStore ==
    \/ \E c \in {1} : ScaleStep(c)
    \/ AppDelete
    \/ CreateApp

SpecStore == InitFair /\ [][NextStore]_vars

----------------------------------------------------------------------------
\* appLog, the log stream, with the writers of the log and the clients.

\* The names a log request may carry.
LogNames == {"a", "ghost"}

\* The checks with permission.Check left out.
LogRefusalNoPermission(linesParam, name, allowed) ==
    IF linesParam = <<>> THEN "mandatory"
    ELSE IF ~Atoi(linesParam).ok THEN "notinteger"
    ELSE IF name \notin DOMAIN apps THEN "notfound"
    ELSE "none"

\* What ends the call before the log is read: the checks of the "lines"
\* parameter, getAppFromContext and permission.Check, in that order; "none"
\* when the call goes on.
LogRefusal(linesParam, name, allowed) ==
    IF linesParam = <<>> THEN "mandatory"
    ELSE IF ~Atoi(linesParam).ok THEN "notinteger"
    ELSE IF name \notin DOMAIN apps THEN "notfound"
    ELSE IF ~allowed THEN "unauthorized"
    ELSE "none"

\* The arguments the handler hands to LastLogs.
LastLogsArgsNoFilter(s) == <<s.lines, "">>

LastLogsArgs(s) == <<s.lines, s.source>>

\* LastLogs: the last n matching records in append order. Nothing is said
\* of n below 1; any number of the last matching records may come back.
LastLogs(n, source) ==
    LET matching == Filter(logs, source)
    IN  IF n >= 1 THEN {LastN(matching, n)}
        ELSE {LastN(matching, k) : k \in 0..Len(matching)}

\* The stream goes on after the backlog for follow=1 and no other value.
FollowsAnyValue(f) == f # ""

Follows(f) == f = "1"

\* Where the loop over the listener's channel goes when it ends: to the
\* deferred function (logTracker.remove, then Close), then the call is done.
ExitStreamingNoDefer == "closed"

ExitStreaming == "cleanup"

\* closeChan is ready: the response writer is a CloseNotifier and the
\* client is gone. The channel made for any other writer is never ready.
CloseChanNeverReady(s) == FALSE

CloseChanReady(s) == s.notifier /\ s.disconnected

\* The request is parsed and checked.
OpenLog(r) ==
    /\ sessions[r].pc = "idle"
    /\ \E lp \in LinesValues, name \in LogNames, src \in SourceValues,
          allowed \in BOOLEAN :
          LET refusal == LogRefusal(lp, name, allowed)
          IN  sessions' = [sessions EXCEPT ![r] =
                  [NoSession EXCEPT
                      !.pc = IF refusal = "none" THEN "fetch" ELSE "closed",
                      !.linesParam = lp, !.lines = Atoi(lp).value,
                      !.app = name, !.allowed = allowed, !.source = src,
                      !.outcome = refusal]]
    /\ UNCHANGED <<apps, units, calls, grants, unlock, logs, tracker, poolList, admin>>

\* LastLogs answers.
Fetch(r) ==
    LET s == sessions[r]
        args == LastLogsArgs(s)
    IN  /\ s.pc = "fetch"
        /\ \E recs \in LastLogs(args[1], args[2]) :
              sessions' = [sessions EXCEPT ![r] =
                  [s EXCEPT !.pc = "encode", !.backlog = recs,
                            !.fetchedAt = Len(logs)]]
        /\ UNCHANGED <<apps, units, calls, grants, unlock, logs, tracker, poolList, admin>>

\* LastLogs fails.
FetchErr(r) ==
    LET s == sessions[r]
    IN  /\ s.pc = "fetch"
        /\ sessions' = [sessions EXCEPT ![r] =
              [s EXCEPT !.pc = "closed", !.outcome = "storage"]]
        /\ UNCHANGED <<apps, units, calls, grants, unlock, logs, tracker, poolList, admin>>

\* The backlog is written to the response.
EncodeBacklog(r) ==
    LET s == sessions[r]
    IN  /\ s.pc = "encode"
        /\ sessions' = [sessions EXCEPT ![r] =
              [s EXCEPT !.pc = "backlogsent", !.response = <<s.backlog>>,
                        !.sentAt = Len(logs), !.idle = 0]]
        /\ UNCHANGED <<apps, units, calls, grants, unlock, logs, tracker, poolList, admin>>

\* Writing the backlog fails.
EncodeBacklogErr(r) ==
    LET s == sessions[r]
    IN  /\ s.pc = "encode"
        /\ sessions' = [sessions EXCEPT ![r] =
              [s EXCEPT !.pc = "closed", !.outcome = "write"]]
        /\ UNCHANGED <<apps, units, calls, grants, unlock, logs, tracker, poolList, admin>>

\* follow is not "1": the call returns after the backlog.
NoFollow(r) ==
    LET s == sessions[r]
    IN  /\ s.pc = "backlogsent"
        /\ \E f \in FollowValues :
              /\ ~Follows(f)
              /\ sessions' = [sessions EXCEPT ![r] =
                    [s EXCEPT !.pc = "closed", !.follow = f, !.outcome = "ok"]]
        /\ UNCHANGED <<apps, units, calls, grants, unlock, logs, tracker, poolList, admin>>

\* follow is "1" and NewLogListener fails: nothing is registered.
ListenErr(r) ==
    LET s == sessions[r]
    IN  /\ s.pc = "backlogsent"
        /\ \E f \in FollowValues :
              /\ Follows(f)
              /\ sessions' = [sessions EXCEPT ![r] =
                    [s EXCEPT !.pc = "closed", !.follow = f,
                              !.outcome = "listener"]]
        /\ UNCHANGED <<apps, units, calls, grants, unlock, logs, tracker, poolList, admin>>

\* follow is "1": closeChan is chosen, the response writer being a
\* CloseNotifier or not, and app.NewLogListener creates the listener, which
\* receives records from now on and is not in logTracker yet.
Listen(r) ==
    LET s == sessions[r]
    IN  /\ s.pc = "backlogsent"
        /\ \E f \in FollowValues, n \in BOOLEAN :
              /\ Follows(f)
              /\ sessions' = [sessions EXCEPT ![r] =
                    [s EXCEPT !.pc = "listening", !.follow = f,
                              !.notifier = n, !.open = TRUE]]
        /\ UNCHANGED <<apps, units, calls, grants, unlock, logs, tracker, poolList, admin>>

\* logTracker.add(l); the removal and the Close are deferred.
TrackerAdd(r) ==
    LET s == sessions[r]
    IN  /\ s.pc = "listening"
        /\ sessions' = [sessions EXCEPT ![r] =
              [s EXCEPT !.pc = "streaming", !.registered = TRUE]]
        /\ tracker' = tracker \cup {r}
        /\ UNCHANGED <<apps, units, calls, grants, unlock, logs, poolList, admin>>

\* The select takes closeChan: the transport has reported the disconnect.
CloseNotified(r) ==
    LET s == sessions[r]
    IN  /\ s.pc = "streaming"
        /\ CloseChanReady(s)
        /\ sessions' = [sessions EXCEPT ![r] =
              [s EXCEPT !.pc = ExitStreaming, !.outcome = "ok"]]
        /\ UNCHANGED <<apps, units, calls, grants, unlock, logs, tracker, poolList, admin>>

\* The select takes a record from logChan and the record is written.
Receive(r) ==
    LET s == sessions[r]
    IN  /\ s.pc = "streaming"
        /\ s.queue # <<>>
        /\ sessions' = [sessions EXCEPT ![r] =
              [s EXCEPT !.queue = Tail(s.queue),
                        !.response = Append(s.response, <<Head(s.queue)>>),
                        !.idle = 0]]
        /\ UNCHANGED <<apps, units, calls, grants, unlock, logs, tracker, poolList, admin>>

\* What the call returns when writing a record of the stream fails: the
\* loop is left and the error dropped.
LiveEncodeErrReturned == "write"

LiveEncodeErrAnswer == "ok"

\* The select takes a record from logChan and writing it fails.
ReceiveErr(r) ==
    LET s == sessions[r]
    IN  /\ s.pc = "streaming"
        /\ s.queue # <<>>
        /\ sessions' = [sessions EXCEPT ![r] =
              [s EXCEPT !.pc = ExitStreaming, !.queue = Tail(s.queue),
                        !.failed = TRUE,
                        !.outcome = LiveEncodeErrAnswer]]
        /\ UNCHANGED <<apps, units, calls, grants, unlock, logs, tracker, poolList, admin>>

\* logChan is closed and drained: the select takes the empty record.
Terminated(r) ==
    LET s == sessions[r]
    IN  /\ s.pc = "streaming"
        /\ s.queue = <<>> /\ ~s.open
        /\ sessions' = [sessions EXCEPT ![r] =
              [s EXCEPT !.pc = ExitStreaming, !.outcome = "ok"]]
        /\ UNCHANGED <<apps, units, calls, grants, unlock, logs, tracker, poolList, admin>>

\* The deferred function starts: logTracker.remove(l). The listener is
\* still open.
Cleanup(r) ==
    LET s == sessions[r]
    IN  /\ s.pc = "cleanup"
        /\ sessions' = [sessions EXCEPT ![r] = [s EXCEPT !.pc = "closing"]]
        /\ tracker' = tracker \ {r}
        /\ UNCHANGED <<apps, units, calls, grants, unlock, logs, poolList, admin>>

\* The deferred function ends: l.Close().
CloseListener(r) ==
    LET s == sessions[r]
    IN  /\ s.pc = "closing"
        /\ sessions' = [sessions EXCEPT ![r] =
              [s EXCEPT !.pc = "closed", !.open = FALSE]]
        /\ UNCHANGED <<apps, units, calls, grants, unlock, logs, tracker, poolList, admin>>

\* The answer is complete; the client may issue its next request.
ReturnLog(r) ==
    /\ sessions[r].pc = "closed"
    /\ sessions' = [sessions EXCEPT ![r] = NoSession]
    /\ UNCHANGED <<apps, units, calls, grants, unlock, logs, tracker, poolList, admin>>

\* A record is appended to the log and handed to every open listener whose
\* filter it matches.
AppendLog ==
    /\ Len(logs) < MaxLogs
    /\ \E src \in Sources :
          LET rec == [id |-> Len(logs) + 1, source |-> src]
          IN  /\ logs' = Append(logs, rec)
              /\ sessions' = [r \in Readers |->
                    IF sessions[r].open /\ Matches(rec, sessions[r].source)
                    THEN [sessions[r] EXCEPT !.queue = Append(@, rec)]
                    ELSE sessions[r]]
    /\ UNCHANGED <<apps, units, calls, grants, unlock, tracker, poolList, admin>>

\* The client of a call in progress goes away.
Disconnect(r) ==
    LET s == sessions[r]
    IN  /\ s.pc \notin {"idle", "closed"}
        /\ ~s.disconnected
        /\ sessions' = [sessions EXCEPT ![r] = [s EXCEPT !.disconnected = TRUE]]
        /\ UNCHANGED <<apps, units, calls, grants, unlock, logs, tracker, poolList, admin>>

\* The listener of a call is closed from outside the call.
Teardown(r) ==
    LET s == sessions[r]
    IN  /\ r \in tracker
        /\ s.open
        /\ sessions' = [sessions EXCEPT ![r] = [s EXCEPT !.open = FALSE]]
        /\ UNCHANGED <<apps, units, calls, grants, unlock, logs, tracker, poolList, admin>>

\* One keep-alive interval passes without a write to the response.
Tick(r) ==
    LET s == sessions[r]
    IN  /\ s.pc = "streaming"
        /\ s.idle < MaxIdle
        /\ sessions' = [sessions EXCEPT ![r] = [s EXCEPT !.idle = @ + 1]]
        /\ UNCHANGED <<apps, units, calls, grants, unlock, logs, tracker, poolList, admin>>

\* The steps of the call of reader r.
LogStep(r) ==
    \/ OpenLog(r)
    \/ Fetch(r)
    \/ FetchErr(r)
    \/ EncodeBacklog(r)
    \/ EncodeBacklogErr(r)
    \/ NoFollow(r)
    \/ ListenErr(r)
    \/ Listen(r)
    \/ TrackerAdd(r)
    \/ CloseNotified(r)
    \/ Receive(r)
    \/ ReceiveErr(r)
    \/ Terminated(r)
    \/ Cleanup(r)
    \/ CloseListener(r)
    \/ ReturnLog(r)

\* One reader, with every request.
NextLog ==
    \/ \E r \in {1} : LogStep(r)
    \/ AppendLog
    \/ \E r \in {1} : Disconnect(r)
    \/ \E r \in {1} : Teardown(r)
    \/ \E r \in {1} : Tick(r)

\* Application "b" as "a"; no swap and no unlock takes place.
InitLog ==
    /\ Init
    /\ apps["b"].platform = "python"
    /\ Cardinality(units["b"]) = 1

SpecLog == InitLog /\ [][NextLog]_vars

\* A call in progress is not stopped: its goroutine takes a step that
\* stays possible. Nothing is assumed of the writers and the clients.
HandlerStep(r) == sessions[r].pc # "idle" /\ LogStep(r)

SpecLogFair == SpecLog /\ \A r \in Readers : WF_vars(HandlerStep(r))

\* The requests and the log of the concurrent readers: no filter, "lines"
\* missing or "1", at most two records.
PairBound ==
    /\ Len(logs) <= 2
    /\ \A r \in Readers :
          sessions[r].source = "" /\ sessions[r].linesParam \in {<<>>, <<"1">>}

\* Every reader at once, with the requests of PairBound.
NextLogPair ==
    \/ \E r \in Readers : OpenLog(r) /\ PairBound'
    \/ \E r \in Readers : Fetch(r)
    \/ \E r \in Readers : FetchErr(r)
    \/ \E r \in Readers : EncodeBacklog(r)
    \/ \E r \in Readers : EncodeBacklogErr(r)
    \/ \E r \in Readers : NoFollow(r)
    \/ \E r \in Readers : ListenErr(r)
    \/ \E r \in Readers : Listen(r)
    \/ \E r \in Readers : TrackerAdd(r)
    \/ \E r \in Readers : CloseNotified(r)
    \/ \E r \in Readers : Receive(r)
    \/ \E r \in Readers : ReceiveErr(r)
    \/ \E r \in Readers : Terminated(r)
    \/ \E r \in Readers : Cleanup(r)
    \/ \E r \in Readers : CloseListener(r)
    \/ \E r \in Readers : ReturnLog(r)
    \/ AppendLog /\ PairBound'
    \/ \E r \in Readers : Disconnect(r)
    \/ \E r \in Readers : Teardown(r)

SpecLogPair == InitLog /\ [][NextLogPair]_vars

----------------------------------------------------------------------------
\* pool-list, the command of the client (tsuru/client/pool.go).

\* Largest number of pools in the answer of the API.
MaxPools == 3

\* Pool names as sequences of bytes: "B", "a", "ab".
PoolNames == {<<66>>, <<97>>, <<97, 98>>}

PoolProvisioners == {"", "swarm"}

\* The pools the API may answer.
PoolValues ==
    [Name : PoolNames, Public : BOOLEAN, Default : BOOLEAN,
     Provisioner : PoolProvisioners]

\* Pool.Kind.
KindDefaultFirst(p) ==
    IF p.Default THEN "default" ELSE IF p.Public THEN "public" ELSE ""

Kind(p) ==
    IF p.Public THEN "public" ELSE IF p.Default THEN "default" ELSE ""

\* Pool.GetProvisioner.
GetProvisioner(p) == IF p.Provisioner = "" THEN "default" ELSE p.Provisioner

\* The bytes of the three kinds.
KindBytes(kind) ==
    CASE kind = "" -> <<>>
      [] kind = "default" -> <<100, 101, 102, 97, 117, 108, 116>>
      [] kind = "public" -> <<112, 117, 98, 108, 105, 99>>

\* strings.Compare, and < on strings: byte by byte, a prefix first.
RECURSIVE Compare(_, _)
Compare(x, y) ==
    IF x = <<>> /\ y = <<>> THEN 0
    ELSE IF x = <<>> THEN -1
    ELSE IF y = <<>> THEN 1
    ELSE IF Head(x) < Head(y) THEN -1
    ELSE IF Head(x) > Head(y) THEN 1
    ELSE Compare(Tail(x), Tail(y))

\* poolEntriesList.Less.
Less(l, i, j) ==
    LET cmp == Compare(KindBytes(Kind(l[i])), KindBytes(Kind(l[j])))
    IN  IF cmp = 0 THEN Compare(l[i].Name, l[j].Name) < 0 ELSE cmp < 0

\* poolEntriesList.Swap.
SwapEntries(l, i, j) == [l EXCEPT ![i] = l[j], ![j] = l[i]]

\* sort.Sort on a slice this short: insertion sort by Less and Swap.
RECURSIVE InsertEntry(_, _)
InsertEntry(l, j) ==
    IF j > 1 /\ Less(l, j, j - 1)
    THEN InsertEntry(SwapEntries(l, j, j - 1), j - 1)
    ELSE l

RECURSIVE SortFrom(_, _)
SortFrom(l, i) ==
    IF i > Len(l) THEN l ELSE SortFrom(InsertEntry(l, i), i + 1)

\* The row of the table for a pool: name, kind, provisioner.
RowOf(p) == <<p.Name, Kind(p), GetProvisioner(p)>>

\* The answer of the API is decoded.
DecodePools ==
    /\ poolList.pc = "idle"
    /\ \E n \in 0..MaxPools : \E l \in [1..n -> PoolValues] :
          poolList' = [NoPoolList EXCEPT !.pc = "decoded", !.input = l,
                                         !.pools = l]
    /\ UNCHANGED <<apps, units, calls, grants, unlock, logs, sessions, tracker,
                   admin>>

\* The request or the decoding fails: Run returns the error.
DecodeErr ==
    /\ poolList.pc = "idle"
    /\ poolList' = [NoPoolList EXCEPT !.pc = "failed"]
    /\ UNCHANGED <<apps, units, calls, grants, unlock, logs, sessions, tracker,
                   admin>>

\* sort.Sort(poolEntriesList(pools)).
SortRun ==
    /\ poolList.pc = "decoded"
    /\ poolList' = [poolList EXCEPT !.pc = "sorted",
                                    !.pools = SortFrom(poolList.pools, 2)]
    /\ UNCHANGED <<apps, units, calls, grants, unlock, logs, sessions, tracker,
                   admin>>

\* One row is added for each pool, in the order of the slice, and the
\* table is written.
PrintRows ==
    /\ poolList.pc = "sorted"
    /\ poolList' = [poolList EXCEPT
                       !.pc = "printed",
                       !.rows = [i \in 1..Len(poolList.pools) |->
                                    RowOf(poolList.pools[i])]]
    /\ UNCHANGED <<apps, units, calls, grants, unlock, logs, sessions, tracker,
                   admin>>

\* The command ends; it may be run again.
EndRun ==
    /\ poolList.pc \in {"printed", "failed"}
    /\ poolList' = NoPoolList
    /\ UNCHANGED <<apps, units, calls, grants, unlock, logs, sessions, tracker,
                   admin>>

NextPool ==
    \/ DecodePools
    \/ DecodeErr
    \/ SortRun
    \/ PrintRows
    \/ EndRun

SpecPool == Init /\ [][NextPool]_vars

----------------------------------------------------------------------------
\* What the claims are stated with.

Returned(c) == calls[c].pc = "done"

\* Between passing both lock checks and returning.
InSection(c) == calls[c].pc \in {"validate", "units2", "swap"}

ResourcesOf(c) == {calls[c].app1Name, calls[c].app2Name}

\* The call holds the lock of name: the lock is set and is the one it wrote.
HoldsLock(c, name) ==
    /\ name \in DOMAIN apps
    /\ apps[name].lock.locked
    /\ apps[name].lock.owner = c

BothExist(c) == ResourcesOf(c) \subseteq DOMAIN apps

PlatformsDiffer(c) ==
    /\ BothExist(c)
    /\ apps[calls[c].app1Name].platform # apps[calls[c].app2Name].platform

\* (* C1 *) Two swap calls that share a resource are never both between
\* passing the lock checks and returning.
C1_SectionsExclusive ==
    \A c1 \in Clients, c2 \in Clients :
        (c1 # c2 /\ InSection(c1) /\ InSection(c2))
            => ResourcesOf(c1) \cap ResourcesOf(c2) = {}

\* (* C2 *) Between two releases of a resource at most one acquire reports
\* success, and the lock of the resource is set exactly while one has.
C2_OneGrantPerRelease ==
    \A n \in DOMAIN apps :
        /\ grants[n] <= 1
        /\ apps[n].lock.locked <=> grants[n] = 1

\* A lock is held and the acquire of another call on it has timed out.
C2_Witness ==
    \E c \in Clients, n \in DOMAIN apps :
        /\ n \in calls[c].timedOut
        /\ apps[n].lock.locked
        /\ apps[n].lock.owner # c

\* (* C3 *) A call that has returned holds none of the locks it acquired,
\* whatever the answer.
C3_NoLockHeldAfterReturn ==
    \A c \in Clients :
        Returned(c) => \A n \in calls[c].acquired : ~HoldsLock(c, n)

\* A call has returned a storage error of its second acquire, having
\* acquired the first lock.
C3_Witness ==
    \E c \in Clients :
        /\ Returned(c)
        /\ calls[c].outcome.kind = "storage"
        /\ calls[c].acquired # {}

\* (* C4 *) A call one of whose acquires timed out, both applications
\* existing, performs no mutation and answers Busy for an application it
\* failed to acquire.
C4_TimeoutAnswersBusy ==
    \A c \in Clients :
        (Returned(c) /\ BothExist(c) /\ calls[c].timedOut # {})
            => /\ ~calls[c].mutated
               /\ calls[c].outcome.kind = "busy"
               /\ calls[c].outcome.app \in calls[c].timedOut

\* (* C5 *) A call answered NotFound has attempted no acquire and no release.
C5_NotFoundBeforeLocking ==
    \A c \in Clients :
        calls[c].outcome.kind = "notfound" => calls[c].lockOps = {}

\* (* C6 *) A call answered Unauthorized has acquired and released no lock
\* and made no mutation.
C6_UnauthorizedBeforeLocking ==
    \A c \in Clients :
        calls[c].outcome.kind = "unauthorized"
            => calls[c].lockOps = {} /\ ~calls[c].mutated

\* (* C7 *) as claimed: a call with force=false on applications of different
\* platforms always answers PreconditionFailed.
C7_MismatchAlwaysPrecondition ==
    \A c \in Clients :
        (Returned(c) /\ calls[c].forceSwap = "false" /\ PlatformsDiffer(c))
            => calls[c].outcome.kind = "precondition"

\* (* C7 *) as amended: a call with force=false on applications of different
\* platforms never invokes the mutation; it answers PreconditionFailed once
\* both events are created, and with the earlier failure otherwise; returned,
\* it holds none of the locks it acquired.
C7_MismatchNeverMutates ==
    \A c \in Clients :
        (calls[c].forceSwap = "false" /\ PlatformsDiffer(c))
            => /\ ~calls[c].mutated
               /\ calls[c].pc # "swap"
               /\ Returned(c) =>
                    /\ calls[c].outcome.kind \in
                         {"storage", "busy", "unauthorized", "event", "precondition"}
                    /\ calls[c].evt2 # "none"
                         => /\ calls[c].outcome.kind = "precondition"
                            /\ calls[c].outcome.msg = "platforms don't match"
                    /\ \A n \in calls[c].acquired : ~HoldsLock(c, n)

\* A call with force=false on applications of different platforms has
\* returned PreconditionFailed.
C7_Witness ==
    \E c \in Clients :
        /\ Returned(c)
        /\ calls[c].forceSwap = "false"
        /\ PlatformsDiffer(c)
        /\ calls[c].outcome.kind = "precondition"

\* (* C8 *) With force=false the mutation is invoked only when the two
\* applications have equal platforms and, at that moment, equal numbers of
\* units; the validation runs with both acquires reported successful and
\* before the mutation; a mismatch of the numbers of units it finds is
\* answered PreconditionFailed without mutation.
C8_ValidationGatesMutation ==
    /\ [](\A c \in Clients :
            /\ calls[c].pc \in {"validate", "units2"}
                  => /\ calls[c].locked1 /\ calls[c].locked2
                     /\ ~calls[c].mutated
            /\ (calls[c].units2 >= 1 /\ calls[c].units1 # calls[c].units2)
                  => /\ calls[c].outcome.kind = "precondition"
                     /\ ~calls[c].mutated)
    /\ [][\A c \in Clients :
            (calls[c].forceSwap = "false" /\ calls[c].pc = "swap"
                  /\ calls'[c].mutated)
                => /\ calls[c].app1.platform = calls[c].app2.platform
                   /\ Cardinality(UnitsOf(calls[c].app1.name)) =
                          Cardinality(UnitsOf(calls[c].app2.name))]_vars

\* (* C9 *) A call one of whose acquires timed out, both applications
\* existing, never answers a fatal error, and a call answering a storage
\* error has made no mutation.
C9_TimeoutNeverFatal ==
    \A c \in Clients :
        /\ (Returned(c) /\ BothExist(c) /\ calls[c].timedOut # {})
              => calls[c].outcome.kind \notin {"storage", "event", "units", "mutation"}
        /\ calls[c].outcome.kind = "storage" => ~calls[c].mutated

\* (* C10 *) When the mutation of a call succeeds, each application has the
\* routing identity the other had before the call made its change, that is
\* when the call took the locks of both; with cnameOnly the units of all
\* applications are left as they were.
C10_SwapExchanges ==
    [][\A c \in Clients :
          (calls[c].pc = "swap" /\ calls'[c].mutated)
              => /\ apps'[calls[c].app1Name].cname = calls[c].before[2]
                 /\ apps'[calls[c].app2Name].cname = calls[c].before[1]
                 /\ calls'[c].outcome.kind = "ok"
                 /\ calls'[c].cnameOnly => units' = units]_vars

\* (* C11 *) A forceDeleteLock request for an application that is not in the
\* store answers NotFound without a permission check; for one in the store,
\* without the permission it answers Unauthorized and the lock records are
\* left as they were; with the permission it succeeds and the lock of the
\* application is free afterwards, whoever held it, the other lock untouched.
C11_ForceUnlock ==
    [][unlock'.seq # unlock.seq =>
          LET u == unlock'
          IN  /\ u.app \notin DOMAIN apps
                    => u.answer = "notfound" /\ ~u.checked /\ apps' = apps
              /\ (u.app \in DOMAIN apps /\ ~u.allowed)
                    => u.answer = "unauthorized" /\ u.checked /\ apps' = apps
              /\ (u.app \in DOMAIN apps /\ u.allowed)
                    => /\ u.answer = "ok"
                       /\ apps' = [apps EXCEPT ![u.app].lock = NoLock]]_vars

\* The unlock has succeeded on an application whose lock a swap call
\* acquired and has not released yet.
C11_Witness ==
    /\ unlock.answer = "ok"
    /\ ~apps[unlock.app].lock.locked
    /\ \E c \in {1} :
          /\ unlock.app \in calls[c].acquired
          /\ calls[c].pc \in {"get", "get2", "validate", "units2", "swap"}

\* The records written to the response after the backlog, in the order of
\* writing.
Streamed(s) == [i \in 1..(Len(s.response) - 1) |-> s.response[i + 1][1]]

\* The matching records appended since the backlog was written.
AppendedSinceBacklog(s) ==
    Filter(SubSeq(logs, s.sentAt + 1, Len(logs)), s.source)

\* (* C12 *) In a follow-mode stream whose listener is open and has nothing
\* left to hand over, the records written after the backlog are exactly the
\* matching records appended since the backlog was written, once each and in
\* append order.
C12_StreamComplete ==
    \A r \in Readers :
        LET s == sessions[r]
        IN  (s.pc = "streaming" /\ s.open /\ s.queue = <<>>)
                => Streamed(s) = AppendedSinceBacklog(s)

\* A follow-mode stream whose client is gone.
Abandoned(r) == sessions[r].pc = "streaming" /\ sessions[r].disconnected

\* The call has returned and its listener is not registered.
ClosedAndRemoved(r) == sessions[r].pc = "closed" /\ r \notin tracker

\* (* C13 *) as claimed: a follow-mode stream whose client is gone is
\* eventually closed with its listener removed from the registry, whether or
\* not another record is appended.
C13_DisconnectCloses ==
    \A r \in Readers : Abandoned(r) ~> ClosedAndRemoved(r)

\* (* C13 *) as amended: a follow-mode stream whose client is gone, on a
\* response writer that reports the disconnect, is eventually closed with
\* its listener closed and removed from the registry, whether or not another
\* record is appended; on a response writer that does not report it, the
\* loop is left only when the listener is closed and drained or when the
\* write of a record fails.
C13_ReportedDisconnectCloses ==
    /\ \A r \in Readers :
          (Abandoned(r) /\ sessions[r].notifier)
              ~> (ClosedAndRemoved(r) /\ ~sessions[r].open)
    /\ [][\A r \in Readers :
            (/\ sessions[r].pc = "streaming"
             /\ ~sessions[r].notifier
             /\ sessions'[r].pc # "streaming")
                => \/ ~sessions[r].open /\ sessions[r].queue = <<>>
                   \/ sessions[r].queue # <<>> /\ sessions'[r].failed]_vars

\* A stream has been closed on the report of the disconnect, no record
\* having been appended since it was opened.
C13_Witness ==
    \E r \in Readers :
        /\ ClosedAndRemoved(r)
        /\ sessions[r].registered
        /\ sessions[r].disconnected /\ sessions[r].notifier
        /\ sessions[r].open = FALSE
        /\ Len(logs) = sessions[r].fetchedAt
        /\ sessions[r].response = <<sessions[r].backlog>>

\* (* C14 *) A log call that has returned has no listener in the registry
\* and its listener is closed, however the stream ended; a listener is in
\* the registry only while its call is in the loop or about to run the
\* deferred removal, and the removal takes no other call's listener out; a
\* call that ends before registering never registered a listener and leaves
\* the registry, with the listeners of the other calls, as it was.
C14_ListenerRemovedOnExit ==
    /\ [](\A r \in Readers :
            LET s == sessions[r]
            IN  /\ s.pc \in {"closed", "idle"} => (r \notin tracker /\ ~s.open)
                /\ r \in tracker
                      => (s.registered /\ s.pc \in {"streaming", "cleanup"})
                /\ (s.pc = "closed" /\ s.outcome # "ok") => ~s.registered
                /\ s.pc \in {"fetch", "encode", "backlogsent", "listening"}
                      => ~s.registered)
    /\ [][\A r \in Readers :
            /\ (sessions[r].pc = "cleanup" /\ sessions'[r].pc # "cleanup")
                  => tracker' = tracker \ {r}
            /\ (/\ sessions[r].pc \in {"idle", "fetch", "encode",
                                       "backlogsent", "listening"}
                 /\ sessions'[r].pc = "closed")
                  => tracker' = tracker]_vars

\* A stream has ended on the teardown of its listener or on a failed write,
\* the client still connected, and its call has returned, while the
\* listener of another call stays in the registry.
C14_Witness ==
    \E r \in Readers :
        /\ sessions[r].pc = "closed"
        /\ sessions[r].registered
        /\ ~sessions[r].disconnected
        /\ r \notin tracker
        /\ tracker # {}

\* (* C15 *) In a follow-mode stream a second keep-alive interval never
\* passes without a write: once one interval has passed with nothing
\* written, a heartbeat is written to the response and the count starts
\* again.
C15_HeartbeatWithinInterval ==
    \A r \in Readers :
        sessions[r].pc = "streaming" => sessions[r].idle <= 1

\* The "lines" parameter is present and a positive integer.
PositiveLines(linesParam) ==
    linesParam # <<>> /\ Atoi(linesParam).ok /\ Atoi(linesParam).value >= 1

\* (* C16 *) A log request whose "lines" parameter is missing, not an
\* integer, zero or negative is refused by one of the checks that come
\* before the log is read: it reads no record and registers no listener.
C16_InvalidLinesRejected ==
    \A r \in Readers :
        LET s == sessions[r]
        IN  (s.pc # "idle" /\ ~PositiveLines(s.linesParam))
                => /\ s.pc = "closed"
                   /\ s.outcome \in
                        {"mandatory", "notinteger", "notfound", "unauthorized"}
                   /\ ~s.registered

\* The matching records the log held when the call read it.
MatchingAtFetch(s) == Filter(SubSeq(logs, 1, s.fetchedAt), s.source)

\* (* C17 *) The first payload of the response of a log call with N >= 1
\* on a log that held k matching records when it was read is the last
\* min(N, k) of them, in append order.
C17_BacklogIsLastN ==
    \A r \in Readers :
        LET s == sessions[r]
            k == Len(MatchingAtFetch(s))
            n == IF s.lines <= k THEN s.lines ELSE k
        IN  (s.lines >= 1 /\ s.response # <<>>)
                => /\ Len(s.response[1]) = n
                   /\ \A i \in 1..n :
                         s.response[1][i] = MatchingAtFetch(s)[k - n + i]

\* A backlog of fewer records than match, read with a source filter from a
\* log that also holds a record of another source.
C17_Witness ==
    \E r \in Readers :
        LET s == sessions[r]
        IN  /\ s.pc = "backlogsent"
            /\ s.source = "web"
            /\ s.lines = 1
            /\ Len(MatchingAtFetch(s)) = 2
            /\ s.fetchedAt = 3
            /\ s.response = <<LastN(MatchingAtFetch(s), 1)>>

\* (* C18 *) A log call whose follow parameter is not "1" never registers a
\* listener and never enters the loop; it returns right after the backlog,
\* and its response is the backlog payload and nothing else.
C18_NoFollowClosesAfterBacklog ==
    \A r \in Readers :
        LET s == sessions[r]
        IN  s.follow # "1"
                => /\ ~s.registered /\ r \notin tracker
                   /\ s.pc \notin {"listening", "streaming", "cleanup", "closing"}
                   /\ ~s.open
                   /\ s.queue = <<>>
                   /\ (s.pc = "closed" /\ s.outcome = "ok")
                         => s.response = <<s.backlog>>

\* A call without follow has returned its backlog of one record, and a
\* record appended since is not in its response.
C18_Witness ==
    \E r \in Readers :
        LET s == sessions[r]
        IN  /\ s.pc = "closed" /\ s.outcome = "ok"
            /\ s.follow = ""
            /\ Len(s.backlog) = 1
            /\ s.response = <<s.backlog>>
            /\ Len(AppendedSinceBacklog(s)) >= 1

\* (* C19 *) A swap call makes no lock operation before its first acquire,
\* which is of app1 as the request names it; when its second acquire starts
\* the only lock operation it has made is that acquire of app1, returned;
\* the second acquire is of app2.
C19_AcquiresInCallerOrder ==
    \A c \in Clients :
        LET call == calls[c]
        IN  /\ call.pc = "acq1" => call.lockOps = {}
            /\ call.pc = "acq2"
                  => /\ call.lockOps = {call.app1Name}
                     /\ call.acquired \cup call.timedOut = {call.app1Name}
            /\ call.pc \in {"get", "get2"}
                  => call.lockOps = {call.app1Name, call.app2Name}

\* A call of swap(b, a) has acquired b and not yet touched a.
C19_Witness ==
    \E c \in Clients :
        /\ calls[c].pc = "acq2"
        /\ calls[c].app1Name = "b" /\ calls[c].app2Name = "a"
        /\ calls[c].acquired = {"b"}
        /\ HoldsLock(c, "b")
        /\ calls[c].lockOps = {"b"}

\* (* C20 *) Every swap call in progress eventually returns, and when no
\* call is in progress no lock is set.
C20_EverySwapReturns ==
    /\ \A c \in Clients : (calls[c].pc # "idle") ~> Returned(c)
    /\ []((\A c \in Clients : calls[c].pc \in {"idle", "done"})
             => \A n \in DOMAIN apps : ~apps[n].lock.locked)

\* Two calls of the same pair in opposite order each hold their first lock
\* and are about to acquire the other.
C20_Witness ==
    \E c1 \in Clients, c2 \in Clients :
        /\ calls[c1].pc = "acq2" /\ calls[c2].pc = "acq2"
        /\ calls[c1].app1Name = "a" /\ calls[c1].app2Name = "b"
        /\ calls[c2].app1Name = "b" /\ calls[c2].app2Name = "a"
        /\ HoldsLock(c1, "a") /\ HoldsLock(c2, "b")

\* The call acquired its first application and its acquire of the second,
\* another application of the store, timed out.
CrossedOut(c) ==
    /\ BothExist(c)
    /\ calls[c].app1Name # calls[c].app2Name
    /\ calls[c].acquired = {calls[c].app1Name}
    /\ calls[c].timedOut = {calls[c].app2Name}

\* (* C21 *) A call that acquired its first application and timed out on
\* the second never makes the mutation, and past the lock checks its answer
\* is Busy for the second application.
C21_CrossedCallsEndBusy ==
    \A c \in Clients :
        CrossedOut(c)
            => /\ ~calls[c].mutated
               /\ calls[c].pc \notin {"validate", "units2", "swap"}
               /\ calls[c].pc \in {"rel2", "rel1", "done"}
                     => /\ calls[c].outcome.kind = "busy"
                        /\ calls[c].outcome.app = calls[c].app2Name

\* swap(a, b) and swap(b, a) ran together: each acquired its first
\* application, timed out on the other, and has returned Busy without
\* mutation.
C21_Witness ==
    \E c1 \in Clients, c2 \in Clients :
        /\ calls[c1].app1Name = "a" /\ calls[c1].app2Name = "b"
        /\ calls[c2].app1Name = "b" /\ calls[c2].app2Name = "a"
        /\ CrossedOut(c1) /\ CrossedOut(c2)
        /\ Returned(c1) /\ Returned(c2)
        /\ calls[c1].outcome.kind = "busy" /\ calls[c2].outcome.kind = "busy"
        /\ ~calls[c1].mutated /\ ~calls[c2].mutated
        /\ apps["a"].cname = {"a"} /\ apps["b"].cname = {"b"}

\* (* C22 *) A Busy answer carries the owner and the reason of a lock that
\* was set on the application when the answer was built, never those of no
\* lock.
C22_BusyNamesLiveLock ==
    \A c \in Clients :
        calls[c].outcome.kind = "busy"
            => /\ calls[c].outcome.owner \in Clients
               /\ calls[c].outcome.reason = "/swap"

\* (* C23 *) The deferred release of a call leaves in place a lock that
\* another owner holds.
C23_ReleaseOnlyOwnLock ==
    [][\A c \in Clients, n \in DOMAIN apps :
          (/\ calls[c].pc \in {"rel2", "rel1"}
           /\ calls'[c].pc # calls[c].pc
           /\ apps[n].lock.locked
           /\ apps[n].lock.owner # c)
              => apps'[n].lock = apps[n].lock]_vars

\* (* C24 *) A call on two applications of the store whose first acquire
\* did not report success makes no second acquire and never has the second
\* lock.
C24_NoSecondAcquireAfterFailure ==
    \A c \in Clients :
        (calls[c].pc \notin {"idle", "acq1"} /\ BothExist(c) /\ ~calls[c].locked1)
            => /\ calls[c].pc # "acq2"
               /\ ~calls[c].locked2
               /\ calls[c].lockOps \subseteq {calls[c].app1Name}

\* (* C25 *) A call that has returned has left none of its events open.
C25_EventsDoneOnReturn ==
    \A c \in Clients :
        Returned(c) => (calls[c].evt1 # "open" /\ calls[c].evt2 # "open")

\* (* C26 *) A call whose force field is not a true value reaches the
\* mutation only after the validation found equal platforms and equal
\* numbers of units.
C26_OnlyTrueForceSkipsValidation ==
    \A c \in {1} :
        (~ParseBool(calls[c].forceSwap) /\ (calls[c].pc = "swap" \/ calls[c].mutated))
            => /\ calls[c].app1.platform = calls[c].app2.platform
               /\ calls[c].units1 >= 1
               /\ calls[c].units1 = calls[c].units2

\* (* C27 *) A call whose two arguments name the same application never
\* reaches the mutation, and when its second acquire has timed out it
\* answers Busy for that application.
C27_SameResourceNeverMutates ==
    \A c \in Clients :
        (calls[c].app1Name = calls[c].app2Name /\ calls[c].app1Name \in DOMAIN apps)
            => /\ ~calls[c].mutated
               /\ calls[c].pc # "swap"
               /\ (Returned(c) /\ calls[c].locked1 /\ calls[c].timedOut # {})
                     => calls[c].outcome.kind = "busy"

\* (* C28 *) A log call for an application that is not in the store, or by
\* a caller without the permission to read its log, reads no record, writes
\* nothing to the response and registers no listener.
C28_NoRecordWithoutPermission ==
    \A r \in Readers :
        LET s == sessions[r]
        IN  (s.app \notin DOMAIN apps \/ ~s.allowed)
                => /\ s.pc \in {"idle", "closed"}
                   /\ s.backlog = <<>> /\ s.response = <<>>
                   /\ s.queue = <<>>
                   /\ ~s.registered /\ r \notin tracker

\* A caller without the permission has asked, with a valid lines value, for
\* the log of "a", which holds a record, and has been answered Unauthorized.
C28_Witness ==
    \E r \in Readers :
        /\ sessions[r].pc = "closed"
        /\ sessions[r].outcome = "unauthorized"
        /\ sessions[r].app = "a"
        /\ sessions[r].lines >= 1
        /\ Len(Filter(logs, sessions[r].source)) >= 1
        /\ sessions[r].response = <<>>

\* (* C29 *) A log call one of whose writes of a live record failed has
\* left the loop, returns no error and writes nothing more; a call that
\* returns the error of LastLogs or of the write of the backlog has
\* registered no listener.
C29_EncodeFailures ==
    /\ [](\A r \in Readers :
            LET s == sessions[r]
            IN  /\ s.failed => /\ s.pc \in {"cleanup", "closing", "closed"}
                                /\ s.outcome = "ok"
                /\ s.outcome \in {"storage", "write"}
                      => (s.pc = "closed" /\ ~s.registered /\ r \notin tracker))
    /\ [][\A r \in Readers :
            (sessions[r].failed /\ sessions'[r].pc # "idle")
                => sessions'[r].response = sessions[r].response]_vars

\* A stream has ended on a failed write with a record still in the
\* listener's channel, and its call has returned without error.
C29_Witness ==
    \E r \in Readers :
        /\ sessions[r].pc = "closed"
        /\ sessions[r].failed
        /\ sessions[r].outcome = "ok"
        /\ sessions[r].queue # <<>>
        /\ r \notin tracker

\* The number of places of a sequence that hold x.
Count(x, l) == Cardinality({i \in 1..Len(l) : l[i] = x})

\* The kind the table is to show for a pool.
ShownKind(p) ==
    IF p.Public THEN "public"
    ELSE IF p.Default /\ ~p.Public THEN "default"
    ELSE ""

\* "" before "default" before "public".
KindRank(kind) ==
    CASE kind = "" -> 0 [] kind = "default" -> 1 [] kind = "public" -> 2

\* Row x may stand before row y.
RowBefore(x, y) ==
    \/ KindRank(x[2]) < KindRank(y[2])
    \/ x[2] = y[2] /\ Compare(x[1], y[1]) <= 0

\* (* C30 *) The table pool-list has printed holds one row per pool of the
\* answer, each pool as often as the answer has it, with the kind "public"
\* for a public pool, "default" for a default pool that is not public and
\* "" otherwise; the rows stand by kind ("" before "default" before
\* "public") and by name within a kind; and Less is irreflexive, transitive
\* and has a transitive incomparability on the pools of the answer.
C30_PoolListSorted ==
    poolList.pc = "printed" =>
        LET rows == poolList.rows
            input == poolList.input
            n == Len(input)
        IN  /\ Len(rows) = n
            /\ \A i \in 1..n :
                  Count(rows[i], rows) =
                      Cardinality({k \in 1..n :
                          <<input[k].Name, ShownKind(input[k]),
                            GetProvisioner(input[k])>> = rows[i]})
            /\ \A i \in 1..n, j \in 1..n :
                  i < j => RowBefore(rows[i], rows[j])
            /\ \A i \in 1..n : ~Less(input, i, i)
            /\ \A i \in 1..n, j \in 1..n, k \in 1..n :
                  /\ (Less(input, i, j) /\ Less(input, j, k)) => Less(input, i, k)
                  /\ (/\ ~Less(input, i, j) /\ ~Less(input, j, i)
                      /\ ~Less(input, j, k) /\ ~Less(input, k, j))
                        => (~Less(input, i, k) /\ ~Less(input, k, i))

\* The table is printed for an answer that came out of order: a public and
\* default pool "a", a default pool "B" and a plain pool "ab".
C30_Witness ==
    /\ poolList.pc = "printed"
    /\ Len(poolList.input) = 3
    /\ poolList.input[1].Public /\ poolList.input[1].Default
    /\ poolList.input[1].Name = <<97>>
    /\ poolList.input[2].Default /\ ~poolList.input[2].Public
    /\ poolList.input[2].Name = <<66>>
    /\ ~poolList.input[3].Default /\ ~poolList.input[3].Public
    /\ poolList.input[3].Name = <<97, 98>>
    /\ poolList.rows[1][2] = "" /\ poolList.rows[2][2] = "default"
    /\ poolList.rows[3][2] = "public"

====
